---- MODULE Spec2Model ----
(***************************************************************************)
(* Model of "Mini Search Engine For Articles" (app.js): the               *)
(* MiniSearchEngine class (article list, inverted index, identifier       *)
(* counter, snapshot persistence) and the Express handlers in front of it.*)
(*                                                                         *)
(* Text is a sequence of one-character strings, so that lower-casing,     *)
(* whitespace splitting and regular-expression matching are computed the  *)
(* way the JavaScript does.  A JavaScript value that may be absent or of  *)
(* another type is a tagged record: [t |-> "str", v |-> <<...>>],         *)
(* [t |-> "arr", v |-> <<...>>], [t |-> "undefined"], [t |-> "null"].     *)
(***************************************************************************)
EXTENDS Integers, Sequences, FiniteSets, TLC

VARIABLES
    articles,   \* this.articles: sequence of article records
    keywords,   \* this.index.keywords: own properties, token -> sequence of ids
    tags,       \* this.index.tags: own properties, tag -> sequence of ids
    nextId,     \* this.nextId
    disk,       \* content of ARTICLES_FILE
    pending,    \* fs.writeFile calls in flight (the data each will write)
    loadPc,     \* position of the app.listen callback / loadArticles
    loadData,   \* what fs.readFile delivered to loadArticles
    now,        \* the wall clock read by new Date()
    issued,     \* articles returned to callers with status 201, in order
    reply       \* the last HTTP request handled and its response

vars == <<articles, keywords, tags, nextId, disk, pending, loadPc, loadData,
          now, issued, reply>>

----------------------------------------------------------------------------
(* Bounds of the model *)

\* addArticle is not called once the store holds this many articles
MaxArticles == 2

----------------------------------------------------------------------------
(* JavaScript values *)

Undefined == [t |-> "undefined"]
Null == [t |-> "null"]
Str(s) == [t |-> "str", v |-> s]
Arr(a) == [t |-> "arr", v |-> a]

\* -Infinity, the value of Math.max() with no arguments; -Infinity + 1 and
\* (-Infinity)++ are -Infinity again
NegInfinity == -1000
\* the identifier of an article whose id was -Infinity, after JSON.stringify
\* wrote it as null: a value equal to no number
NullId == -2000

Plus1(n) == IF n = NegInfinity THEN NegInfinity ELSE n + 1

\* !x for the values a request body field takes here
Falsy(x) == x.t \in {"undefined", "null"} \/ (x.t = "str" /\ x.v = <<>>)

----------------------------------------------------------------------------
(* Text *)

UpperChars == <<"A", "B", "C", "D", "E", "F", "G", "H", "I", "J", "K", "L", "M",
                "N", "O", "P", "Q", "R", "S", "T", "U", "V", "W", "X", "Y", "Z">>
LowerChars == <<"a", "b", "c", "d", "e", "f", "g", "h", "i", "j", "k", "l", "m",
                "n", "o", "p", "q", "r", "s", "t", "u", "v", "w", "x", "y", "z">>
LowerOf == [c \in {UpperChars[i] : i \in 1..26} |->
               LowerChars[CHOOSE i \in 1..26 : UpperChars[i] = c]]

\* String.prototype.toLowerCase
toLowerCaseChar(c) == IF c \in DOMAIN LowerOf THEN LowerOf[c] ELSE c

toLowerCase(s) == [i \in 1..Len(s) |-> toLowerCaseChar(s[i])]

\* the characters \s matches (those that occur in the inputs)
Whitespace == {" ", "\t"}

RECURSIVE SplitFrom(_, _, _, _)
SplitFrom(s, i, cur, acc) ==
    IF i > Len(s) THEN Append(acc, cur)
    ELSE IF s[i] \in Whitespace
         THEN IF i > 1 /\ s[i - 1] \in Whitespace
              THEN SplitFrom(s, i + 1, cur, acc)             \* same run of \s+
              ELSE SplitFrom(s, i + 1, <<>>, Append(acc, cur))
         ELSE SplitFrom(s, i + 1, Append(cur, s[i]), acc)

\* s.split(/\s+/): the pieces between maximal whitespace runs; a leading or a
\* trailing run leaves an empty piece, and "" splits to [""]
split(s) == SplitFrom(s, 1, <<>>, <<>>)

\* one pattern character against one text character: "." is the wildcard of
\* the regular expression, every other character of the inputs is literal
CharMatches(pc, c) == IF pc = "." THEN c # "\n" ELSE pc = c

MatchesAt(pat, text, p) ==
    /\ p + Len(pat) - 1 <= Len(text)
    /\ \A i \in 1..Len(pat) : CharMatches(pat[i], text[p + i - 1])

RECURSIVE MatchCountOverlapping(_, _, _)
\* a scan that restarts one character after the start of each match
MatchCountOverlapping(pat, text, from) ==
    LET cands == {p \in from..(Len(text) + 1) : MatchesAt(pat, text, p)}
    IN  IF cands = {} THEN 0
        ELSE LET p == CHOOSE q \in cands : \A r \in cands : q <= r
             IN  1 + MatchCountOverlapping(pat, text, p + 1)

RECURSIVE MatchCount(_, _, _)
\* text.match(new RegExp(pat, 'g')).length, scanning from position `from`:
\* the leftmost match at or after lastIndex, then lastIndex moves past it
\* (by one when the match is empty)
MatchCount(pat, text, from) ==
    LET cands == {p \in from..(Len(text) + 1) : MatchesAt(pat, text, p)}
    IN  IF cands = {} THEN 0
        ELSE LET p == CHOOSE q \in cands : \A r \in cands : q <= r
             IN  1 + MatchCount(pat, text,
                                IF Len(pat) = 0 THEN p + 1 ELSE p + Len(pat))

----------------------------------------------------------------------------
(* The inverted index: two plain objects created as {} *)

\* the lower-case property names every {} inherits from Object.prototype:
\* index.keywords[k] is truthy for them although no bucket was ever stored
Constructor == <<"c", "o", "n", "s", "t", "r", "u", "c", "t", "o", "r">>
DunderProto == <<"_", "_", "p", "r", "o", "t", "o", "_", "_">>
ProtoKeys == {Constructor, DunderProto}

EmptyObject == [k \in {} |-> <<>>]

\* the body of both forEach callbacks of indexArticle for one key:
\*   if (!obj[key]) obj[key] = [];  obj[key].push(id);
\* an inherited property is truthy, so no bucket is created, and it has no
\* push: the call throws a TypeError
PushId(obj, key, id) ==
    IF key \in DOMAIN obj
    THEN [obj |-> [obj EXCEPT ![key] = Append(@, id)], threw |-> FALSE]
    ELSE IF key \in ProtoKeys
         THEN [obj |-> obj, threw |-> TRUE]
         ELSE [obj |-> [k \in DOMAIN obj \cup {key} |->
                           IF k = key THEN <<id>> ELSE obj[k]],
               threw |-> FALSE]

RECURSIVE PushAll(_, _, _, _)
\* keys.forEach(key => ...push(id)), stopping at the first throw
PushAll(obj, keys, i, id) ==
    IF i > Len(keys) THEN [obj |-> obj, threw |-> FALSE]
    ELSE LET r == PushId(obj, keys[i], id)
         IN  IF r.threw THEN r ELSE PushAll(r.obj, keys, i + 1, id)

\* the text both indexArticle and calculateRelevance work on
TitleAndContent(article) == article.title \o <<" ">> \o article.content

\* indexArticle(article) on the index idx = [keywords, tags]; threw tells
\* that it ended in a TypeError, with idx as far as it got
indexArticle(idx, article) ==
    LET kw == PushAll(idx.keywords,
                      split(toLowerCase(TitleAndContent(article))), 1, article.id)
    IN  IF kw.threw
        THEN [keywords |-> kw.obj, tags |-> idx.tags, threw |-> TRUE]
        ELSE IF article.tags.t # "arr"
             \* null.forEach, "text".forEach: not a function
             THEN [keywords |-> kw.obj, tags |-> idx.tags, threw |-> TRUE]
             ELSE LET lowercaseTags == [i \in 1..Len(article.tags.v) |->
                                           toLowerCase(article.tags.v[i])]
                      tg == PushAll(idx.tags, lowercaseTags, 1, article.id)
                  IN  [keywords |-> kw.obj, tags |-> tg.obj, threw |-> tg.threw]

----------------------------------------------------------------------------
(* Persistence *)

Absent == [t |-> "absent"]
Json(v) == [t |-> "json", v |-> v]

\* JSON.stringify(this.articles): strings, arrays, null and finite numbers
\* are written as they are, -Infinity is written as null
Stringify(as) ==
    [i \in 1..Len(as) |->
        [as[i] EXCEPT !.id = IF @ = NegInfinity THEN NullId ELSE @]]

\* Number(x) for an identifier read back from JSON: null counts as 0
ToNumber(id) == IF id = NullId THEN 0 ELSE id

\* Math.max(...ids)
MathMax(ids) ==
    IF Len(ids) = 0 THEN NegInfinity
    ELSE LET nums == {ToNumber(ids[i]) : i \in 1..Len(ids)}
         IN  CHOOSE m \in nums : \A n \in nums : n <= m

RECURSIVE Rebuild(_, _, _)
\* this.articles.forEach(article => this.indexArticle(article)) from
\* position i on; the first throw ends the loop
Rebuild(idx, as, i) ==
    IF i > Len(as) THEN idx
    ELSE LET r == indexArticle(idx, as[i])
         IN  IF r.threw THEN r ELSE Rebuild(r, as, i + 1)

----------------------------------------------------------------------------
(* MiniSearchEngine: search, get *)

RECURSIVE Sum(_, _)
Sum(f, i) == IF i > Len(f) THEN 0 ELSE f[i] + Sum(f, i + 1)

\* a score that looks at the title only
calculateRelevanceTitleOnly(article, searchTerms) ==
    LET searchText == toLowerCase(article.title)
    IN  Sum([i \in 1..Len(searchTerms) |->
                MatchCount(toLowerCase(searchTerms[i]), searchText, 1)], 1)

\* calculateRelevance(article, searchTerms)
calculateRelevance(article, searchTerms) ==
    LET searchText == toLowerCase(TitleAndContent(article))
    IN  Sum([i \in 1..Len(searchTerms) |->
                MatchCount(toLowerCase(searchTerms[i]), searchText, 1)], 1)

\* obj[term] || [] followed by the spread [...matches]: the bucket, or
\* nothing; an inherited property is truthy and not iterable (TypeError)
SpreadThrows(obj, term) == term \notin DOMAIN obj /\ term \in ProtoKeys
Bucket(obj, term) == IF term \in DOMAIN obj THEN obj[term] ELSE <<>>

SeqRange(f) == {f[i] : i \in 1..Len(f)}

RECURSIVE InsertDescUnstable(_, _, _, _)
\* r goes in front of the elements it ties with
InsertDescUnstable(sorted, r, key, i) ==
    IF i > Len(sorted) \/ sorted[i][key] <= r[key]
    THEN SubSeq(sorted, 1, i - 1) \o <<r>> \o SubSeq(sorted, i, Len(sorted))
    ELSE InsertDescUnstable(sorted, r, key, i + 1)

RECURSIVE InsertDesc(_, _, _, _)
\* r goes behind every element that does not sort after it
InsertDesc(sorted, r, key, i) ==
    IF i > Len(sorted) \/ sorted[i][key] < r[key]
    THEN SubSeq(sorted, 1, i - 1) \o <<r>> \o SubSeq(sorted, i, Len(sorted))
    ELSE InsertDesc(sorted, r, key, i + 1)

RECURSIVE SortDesc(_, _, _, _)
\* results.sort((a, b) => b[key] - a[key]): Array.prototype.sort is stable
SortDesc(results, key, i, acc) ==
    IF i > Len(results) THEN acc
    ELSE SortDesc(results, key, i + 1, InsertDesc(acc, results[i], key, 1))

Decorate(article, score) ==
    [id |-> article.id, title |-> article.title, content |-> article.content,
     tags |-> article.tags, createdAt |-> article.createdAt,
     relevanceScore |-> score]

\* the candidate identifiers searchArticles collects in matchedIds
MatchedIds(searchTerms) ==
    UNION {SeqRange(Bucket(keywords, searchTerms[i]))
              \cup SeqRange(Bucket(tags, searchTerms[i])) : i \in 1..Len(searchTerms)}

RECURSIVE FilterMap(_, _, _)
\* this.articles.filter(...).map(...)
FilterMap(ids, searchTerms, i) ==
    IF i > Len(articles) THEN <<>>
    ELSE IF articles[i].id \in ids
         THEN <<Decorate(articles[i], calculateRelevance(articles[i], searchTerms))>>
                  \o FilterMap(ids, searchTerms, i + 1)
         ELSE FilterMap(ids, searchTerms, i + 1)

\* a sort step without the date branch
SortResultsByRelevanceOnly(results, sortBy) ==
    IF sortBy = "relevance" THEN SortDesc(results, "relevanceScore", 1, <<>>)
    ELSE results

\* the sort step of searchArticles
SortResults(results, sortBy) ==
    IF sortBy = "relevance" THEN SortDesc(results, "relevanceScore", 1, <<>>)
    ELSE IF sortBy = "date" THEN SortDesc(results, "createdAt", 1, <<>>)
    ELSE results

\* searchArticles(query, sortBy) on the current store: threw, or the results
searchArticles(query, sortBy) ==
    LET searchTerms == split(toLowerCase(query))
    IN  IF \E i \in 1..Len(searchTerms) :
               SpreadThrows(keywords, searchTerms[i]) \/ SpreadThrows(tags, searchTerms[i])
        THEN [threw |-> TRUE, results |-> <<>>]
        ELSE [threw |-> FALSE,
              results |-> SortResults(
                  FilterMap(MatchedIds(searchTerms), searchTerms, 1), sortBy)]

\* parseInt of a path parameter: its leading decimal digits, or NaN
Digits == <<"0", "1", "2", "3", "4", "5", "6", "7", "8", "9">>
DigitValue(c) == (CHOOSE d \in 1..10 : Digits[d] = c) - 1
IsDigit(c) == \E d \in 1..10 : Digits[d] = c
NaN == [t |-> "NaN"]
Num(n) == [t |-> "num", v |-> n]

RECURSIVE ParseDigits(_, _, _)
ParseDigits(s, i, acc) ==
    IF i > Len(s) \/ ~IsDigit(s[i]) THEN acc
    ELSE ParseDigits(s, i + 1, 10 * acc + DigitValue(s[i]))

parseInt(s) ==
    IF Len(s) = 0 \/ ~IsDigit(s[1]) THEN NaN ELSE Num(ParseDigits(s, 1, 0))

\* getArticle(id), id already a number or NaN: the first article with
\* article.id === id, or undefined
getArticle(id) ==
    IF id.t = "num" /\ \E i \in 1..Len(articles) : articles[i].id = id.v
    THEN LET i == CHOOSE j \in 1..Len(articles) :
                     /\ articles[j].id = id.v
                     /\ \A k \in 1..(j - 1) : articles[k].id # id.v
         IN  [t |-> "article", v |-> articles[i]]
    ELSE Undefined

----------------------------------------------------------------------------
(* MiniSearchEngine: add, persist, load *)

\* this.nextId++ leaves this value in the counter
Increment(n) == Plus1(n)

\* addArticle(title, content, tags) at clock reading t, up to and including
\* the call of indexArticle: the article, the store and the index after it,
\* and whether indexArticle threw (then persistArticles is never called and
\* nothing is returned)
addArticle(title, content, tagsArg, t) ==
    LET article == [id |-> nextId,
                    title |-> title,
                    content |-> content,
                    tags |-> IF tagsArg = Undefined THEN Arr(<<>>) ELSE tagsArg,
                    createdAt |-> t]
        idx == indexArticle([keywords |-> keywords, tags |-> tags], article)
    IN  [article |-> article,
         articles |-> Append(articles, article),
         nextId |-> Increment(nextId),
         keywords |-> idx.keywords,
         tags |-> idx.tags,
         threw |-> idx.threw]

\* loadArticles after readFile delivered the parsed array `data`:
\* the store, the counter and the rebuilt index; a throw inside the rebuild
\* is caught and leaves the index as far as it got
loadArticles(data) ==
    LET idx == Rebuild([keywords |-> EmptyObject, tags |-> EmptyObject,
                        threw |-> FALSE], data, 1)
    IN  [articles |-> data,
         nextId |-> Plus1(MathMax([i \in 1..Len(data) |-> data[i].id])),
         keywords |-> idx.keywords,
         tags |-> idx.tags]

----------------------------------------------------------------------------
(* Express handlers *)

NoReply == [op |-> "none", req |-> Undefined, status |-> 0, body |-> Undefined]

\* a handler that checks the content only
MissingContentOnly(body) == Falsy(body.content)

\* the check of the POST /articles handler: !title || !content
MissingTitleOrContent(body) == Falsy(body.title) \/ Falsy(body.content)

\* app.post('/articles', ...) with req.body = body, the clock reading t
PostArticles(body, t) ==
    /\ loadPc # "start"
    /\ IF MissingTitleOrContent(body)
       THEN /\ reply' = [op |-> "post", req |-> body, status |-> 400,
                         body |-> "Title and content are required"]
            /\ UNCHANGED <<articles, keywords, tags, nextId, disk, pending,
                           loadPc, loadData, now, issued>>
       ELSE /\ Len(articles) < MaxArticles
            /\ t >= now
            /\   LET r == addArticle(body.title.v, body.content.v, body.tags, t)
                 IN  /\ now' = t
                     /\ articles' = r.articles
                     /\ nextId' = r.nextId
                     /\ keywords' = r.keywords
                     /\ tags' = r.tags
                     /\ IF r.threw
                        THEN \* the global error handler answers
                             /\ reply' = [op |-> "post", req |-> body, status |-> 500,
                                          body |-> "Something went wrong!"]
                             /\ UNCHANGED <<pending, issued>>
                        ELSE \* persistArticles() starts the write and is not awaited
                             /\ pending' = pending \cup {Stringify(r.articles)}
                             /\ issued' = Append(issued, r.article)
                             /\ reply' = [op |-> "post", req |-> body, status |-> 201,
                                          body |-> r.article]
                     /\ UNCHANGED <<disk, loadPc, loadData>>

\* a search handler whose sort works on this.articles itself, newest first
GetSearchSortingStore(q, sort) ==
    /\ loadPc # "start"
    /\ LET req == [q |-> q, sort |-> sort]
       IN  IF Falsy(q)
           THEN reply' = [op |-> "search", req |-> req, status |-> 400,
                          body |-> "Search query is required"]
           ELSE LET r == searchArticles(q.v, IF sort = Undefined THEN "relevance"
                                                                ELSE sort.v)
                IN  IF r.threw
                    THEN reply' = [op |-> "search", req |-> req, status |-> 500,
                                   body |-> "Something went wrong!"]
                    ELSE reply' = [op |-> "search", req |-> req, status |-> 200,
                                   body |-> r.results]
    /\ articles' = SortDesc(articles, "createdAt", 1, <<>>)
    /\ UNCHANGED <<keywords, tags, nextId, disk, pending, loadPc,
                   loadData, now, issued>>

\* app.get('/articles/search', ...) with req.query = {q, sort}
GetSearch(q, sort) ==
    /\ loadPc # "start"
    /\ LET req == [q |-> q, sort |-> sort]
       IN  IF Falsy(q)
           THEN reply' = [op |-> "search", req |-> req, status |-> 400,
                          body |-> "Search query is required"]
           ELSE LET r == searchArticles(q.v, IF sort = Undefined THEN "relevance"
                                                                ELSE sort.v)
                IN  IF r.threw
                    THEN reply' = [op |-> "search", req |-> req, status |-> 500,
                                   body |-> "Something went wrong!"]
                    ELSE reply' = [op |-> "search", req |-> req, status |-> 200,
                                   body |-> r.results]
    /\ UNCHANGED <<articles, keywords, tags, nextId, disk, pending, loadPc,
                   loadData, now, issued>>

\* app.get('/articles/:id', ...) with req.params.id = param
GetArticleById(param) ==
    /\ loadPc # "start"
    /\ LET article == getArticle(parseInt(param))
       IN  IF article = Undefined
           THEN reply' = [op |-> "get", req |-> param, status |-> 404,
                          body |-> "Article not found"]
           ELSE reply' = [op |-> "get", req |-> param, status |-> 200,
                          body |-> article.v]
    /\ UNCHANGED <<articles, keywords, tags, nextId, disk, pending, loadPc,
                   loadData, now, issued>>

----------------------------------------------------------------------------
(* Asynchronous steps: the snapshot writes and the startup load *)

\* an fs.writeFile started by persistArticles completes
WriteDone(data) ==
    /\ data \in pending
    /\ pending' = pending \ {data}
    /\ disk' = Json(data)
    /\ reply' = NoReply
    /\ UNCHANGED <<articles, keywords, tags, nextId, loadPc, loadData, now, issued>>

\* a persistArticles whose catch undoes the add
WriteFailedUndoesAdd(data) ==
    /\ data \in pending
    /\ pending' = pending \ {data}
    /\ reply' = NoReply
    /\ articles' = IF Len(articles) = 0 THEN articles
                   ELSE SubSeq(articles, 1, Len(articles) - 1)
    /\ UNCHANGED <<keywords, tags, nextId, disk, loadPc, loadData, now, issued>>

\* an fs.writeFile fails before it touched the file: persistArticles logs
\* the error and nothing else happens
WriteFailed(data) ==
    /\ data \in pending
    /\ pending' = pending \ {data}
    /\ reply' = NoReply
    /\ UNCHANGED <<articles, keywords, tags, nextId, disk, loadPc, loadData, now,
                   issued>>

\* the app.listen callback runs: the server accepts requests, loadArticles
\* has called fs.readFile and awaits it
Listen ==
    /\ loadPc = "start"
    /\ loadPc' = "reading"
    /\ reply' = NoReply
    /\ UNCHANGED <<articles, keywords, tags, nextId, disk, pending, loadData,
                   now, issued>>

\* fs.readFile reads the file as it is at that moment
ReadFile ==
    /\ loadPc = "reading"
    /\ loadPc' = "read"
    /\ loadData' = disk
    /\ reply' = NoReply
    /\ UNCHANGED <<articles, keywords, tags, nextId, disk, pending, now, issued>>

\* loadArticles resumes after the await: JSON.parse and the rebuild, or the
\* catch when the file was missing or is no JSON
LoadResume ==
    /\ loadPc = "read"
    /\ loadPc' = "done"
    /\ reply' = NoReply
    /\ IF loadData.t = "json"
       THEN LET r == loadArticles(loadData.v)
            IN  /\ articles' = r.articles
                /\ nextId' = r.nextId
                /\ keywords' = r.keywords
                /\ tags' = r.tags
       ELSE UNCHANGED <<articles, keywords, tags, nextId>>
    /\ UNCHANGED <<disk, pending, loadData, now, issued>>

----------------------------------------------------------------------------
(* Inputs: the request bodies, queries and snapshots the runs draw from *)

Body(title, content, tagsArg) == [title |-> title, content |-> content, tags |-> tagsArg]
Search(q, sort) == [q |-> q, sort |-> sort]

Dog == <<"d", "o", "g">>
Pets == <<"p", "e", "t", "s">>

\* a plain article, tags left out
BodyDog == Body(Str(Dog), Str(Pets), Undefined)
\* a word that names an inherited property
BodyConstructor == Body(Str(Constructor), Str(Dog), Arr(<<Pets>>))
\* rejected by the handler: empty title, absent content
BodyNoTitle == Body(Str(<<>>), Str(Dog), Arr(<<Pets>>))
BodyNoContent == Body(Str(Dog), Undefined, Undefined)

Bodies == {BodyDog, BodyConstructor, BodyNoTitle, BodyNoContent}

Searches == {Search(Undefined, Undefined), Search(Str(Dog), Undefined),
             Search(Str(Constructor), Str("date"))}

IdParams == {<<"1">>, <<"2">>, <<"9", "9", "9">>, <<"a", "b", "c">>}

\* an article a previous run of the program persisted
SnapshotArticle ==
    [id |-> 1, title |-> Pets, content |-> Dog, tags |-> Arr(<<Pets>>),
     createdAt |-> 0]

InitialDisks == {Absent, Json(<<>>), Json(<<SnapshotArticle>>)}

----------------------------------------------------------------------------
(* The program *)

\* the state when the module has been evaluated: the engine constructed,
\* app.listen called, its callback not yet run
Init ==
    /\ articles = <<>>
    /\ keywords = EmptyObject
    /\ tags = EmptyObject
    /\ nextId = 1
    /\ disk \in InitialDisks
    /\ pending = {}
    /\ loadPc = "start"
    /\ loadData = Undefined
    /\ now = 0
    /\ issued = <<>>
    /\ reply = NoReply

\* In Spec the clock advances between two adds.
Next ==
    \/ Listen
    \/ ReadFile
    \/ LoadResume
    \/ \E body \in Bodies : PostArticles(body, now + 1)
    \/ \E s \in Searches : GetSearch(s.q, s.sort)
    \/ \E param \in IdParams : GetArticleById(param)
    \/ \E data \in pending : WriteDone(data)
    \/ \E data \in pending : WriteFailed(data)

Spec == Init /\ [][Next]_vars

\* a fresh store: no snapshot file when the process starts
InitFresh == Init /\ disk = Absent

SpecFresh == InitFresh /\ [][Next]_vars

\* a restart: the snapshot file of a previous run is there
InitRestart == Init /\ disk = Json(<<SnapshotArticle>>)

SpecRestart == InitRestart /\ [][Next]_vars

----------------------------------------------------------------------------
(* The program on inputs chosen for the search: short texts with repeated  *)
(* letters, surrounding whitespace and upper case.                         *)

Aa == <<"a", "a">>
B == <<"b">>

\* text " aaa aa": tokens "", "aaa", "aa"; tag "b"
BodyAaa == Body(Str(<<" ", "A", "a", "a">>), Str(Aa), Arr(<<<<"B">>>>))
\* text "aa b": tokens "aa", "b"; no tags
BodyAaB == Body(Str(Aa), Str(B), Undefined)

SearchBodies == {BodyAaa, BodyAaB}

SearchQueries ==
    {Search(Str(Aa), Str("relevance")),
     Search(Str(Aa), Undefined),
     Search(Str(<<" ", "a", "a">>), Str("relevance")),
     Search(Str(B), Str("relevance")),
     Search(Str(<<"B", " ", "a", "a">>), Str("date")),
     Search(Str(<<"a", "a", " ", " ", "b">>), Str("title"))}

NextSearch ==
    \/ Listen
    \/ ReadFile
    \/ LoadResume
    \/ \E body \in SearchBodies : PostArticles(body, now + 1)
    \/ \E s \in SearchQueries : GetSearch(s.q, s.sort)
    \/ GetArticleById(<<"1">>)
    \/ \E data \in pending : WriteDone(data)
    \/ \E data \in pending : WriteFailed(data)

SpecSearch == InitFresh /\ [][NextSearch]_vars

----------------------------------------------------------------------------
(* The program on the "Cats and Dogs" / "Dog Training" scenario *)

CatsAndDogs == <<"C", "a", "t", "s", " ", "a", "n", "d", " ", "D", "o", "g", "s">>
CatsAreGreatPets == <<"C", "a", "t", "s", " ", "a", "r", "e", " ", "g", "r", "e", "a", "t", " ", "p", "e", "t", "s">>
DogTraining == <<"D", "o", "g", " ", "T", "r", "a", "i", "n", "i", "n", "g">>
TrainingYourDog == <<"T", "r", "a", "i", "n", "i", "n", "g", " ", "y", "o", "u", "r", " ", "d", "o", "g">>
Animals == <<"a", "n", "i", "m", "a", "l", "s">>
Training == <<"t", "r", "a", "i", "n", "i", "n", "g">>

BodyCats == Body(Str(CatsAndDogs), Str(CatsAreGreatPets), Arr(<<Pets, Animals>>))
BodyDogs == Body(Str(DogTraining), Str(TrainingYourDog), Arr(<<Pets, Training>>))

ScenarioBodies == {BodyCats, BodyDogs}

ScenarioQueries ==
    {Search(Str(Dog), Str("relevance")),
     Search(Str(Pets), Str("relevance")),
     Search(Str(Training), Undefined)}

NextScenario ==
    \/ Listen
    \/ ReadFile
    \/ LoadResume
    \/ \E body \in ScenarioBodies : PostArticles(body, now + 1)
    \/ \E s \in ScenarioQueries : GetSearch(s.q, s.sort)
    \/ GetArticleById(<<"2">>)
    \/ \E data \in pending : WriteDone(data)
    \/ \E data \in pending : WriteFailed(data)

SpecScenario == InitFresh /\ [][NextScenario]_vars

----------------------------------------------------------------------------
(* The program on inputs chosen for the date order: two adds may read the  *)
(* same millisecond from the clock.                                        *)

DateBodies == {BodyAaB}

DateQueries ==
    {Search(Str(Aa), Str("date")),
     Search(Str(Aa), Str("title")),
     Search(Str(B), Str("relevance"))}

NextDate ==
    \/ Listen
    \/ ReadFile
    \/ LoadResume
    \/ \E body \in DateBodies, t \in {now, now + 1} : PostArticles(body, t)
    \/ \E s \in DateQueries : GetSearch(s.q, s.sort)
    \/ GetArticleById(<<"1">>)
    \/ \E data \in pending : WriteDone(data)
    \/ \E data \in pending : WriteFailed(data)

SpecDate == InitFresh /\ [][NextDate]_vars

----------------------------------------------------------------------------
(* The program when no snapshot write fails *)

NextWritesSucceed ==
    \/ Listen
    \/ ReadFile
    \/ LoadResume
    \/ \E body \in SearchBodies : PostArticles(body, now + 1)
    \/ GetSearch(Str(Aa), Undefined)
    \/ GetArticleById(<<"1">>)
    \/ \E data \in pending : WriteDone(data)

SpecWritesSucceed == InitFresh /\ [][NextWritesSucceed]_vars

----------------------------------------------------------------------------
(* The program on bodies that differ in their tags: absent, a sequence of  *)
(* text, null, and a text instead of a sequence.                           *)

BodyTagged == Body(Str(Dog), Str(Pets), Arr(<<Pets, Dog>>))
BodyNullTags == Body(Str(Dog), Str(Pets), Null)
BodyTextTags == Body(Str(Dog), Str(Pets), Str(Pets))

TagBodies == {BodyDog, BodyTagged, BodyNullTags, BodyTextTags}

NextTags ==
    \/ Listen
    \/ ReadFile
    \/ LoadResume
    \/ \E body \in TagBodies : PostArticles(body, now + 1)
    \/ GetSearch(Str(Dog), Undefined)
    \/ GetArticleById(<<"1">>)
    \/ \E data \in pending : WriteDone(data)
    \/ \E data \in pending : WriteFailed(data)

SpecTags == InitFresh /\ [][NextTags]_vars

----------------------------------------------------------------------------
(* Claims *)

StripScore(r) ==
    [id |-> r.id, title |-> r.title, content |-> r.content, tags |-> r.tags,
     createdAt |-> r.createdAt]

\* C1: every article in the store, in every state a search can observe, is
\* fully indexed: each lower-case whitespace-delimited token of
\* title + " " + content is a key of the keyword mapping whose bucket holds
\* the article's identifier, and each lower-cased tag is a key of the tag
\* mapping whose bucket holds it.  Stated as the claim states it; the code
\* violates it.
C1_EveryStoredArticleFullyIndexed ==
    \A i \in 1..Len(articles) :
        LET a == articles[i]
            tokens == split(toLowerCase(TitleAndContent(a)))
        IN  /\ \A n \in 1..Len(tokens) :
                  /\ tokens[n] \in DOMAIN keywords
                  /\ a.id \in SeqRange(keywords[tokens[n]])
            /\ a.tags.t = "arr" =>
                  \A n \in 1..Len(a.tags.v) :
                      /\ toLowerCase(a.tags.v[n]) \in DOMAIN tags
                      /\ a.id \in SeqRange(tags[toLowerCase(a.tags.v[n])])

\* the identifiers of the buckets a query token selects, read off the two
\* mappings (no bucket: nothing)
ClaimedCandidates(query) ==
    LET terms == split(toLowerCase(query))
    IN  {id \in {articles[i].id : i \in 1..Len(articles)} :
            \E n \in 1..Len(terms) :
                \/ terms[n] \in DOMAIN keywords /\ id \in SeqRange(keywords[terms[n]])
                \/ terms[n] \in DOMAIN tags /\ id \in SeqRange(tags[terms[n]])}

\* C2: for every non-empty query, search returns exactly the articles whose
\* identifier is in the union, over the query tokens, of the token's keyword
\* bucket and tag bucket, each once, and no other article.  Stated as the
\* claim states it; the code violates it.
C2_SearchReturnsExactlyTheUnion ==
    (reply.op = "search" /\ ~Falsy(reply.req.q)) =>
        /\ reply.status = 200
        /\ LET ids == ClaimedCandidates(reply.req.q.v)
               hits == {i \in 1..Len(articles) : articles[i].id \in ids}
           IN  /\ Len(reply.body) = Cardinality(hits)
               /\ \A i \in hits :
                     \E j \in 1..Len(reply.body) : StripScore(reply.body[j]) = articles[i]
               /\ \A j \in 1..Len(reply.body) : reply.body[j].id \in ids

\* C5: on a fresh store the identifiers returned by the successful adds are
\* strictly increasing in request order, the first is 1, and no two articles
\* in the store share an identifier.  Stated as the claim states it; the
\* code violates it.
C5_ReturnedIdsIncreaseFromOne ==
    /\ \A i \in 1..Len(issued) : \A j \in (i + 1)..Len(issued) :
           issued[i].id < issued[j].id
    /\ Len(issued) > 0 => issued[1].id = 1
    /\ \A i \in 1..Len(articles) : \A j \in (i + 1)..Len(articles) :
           articles[i].id # articles[j].id

\* loadArticles has replaced the store by a snapshot and no add came after
JustLoaded == loadPc = "done" /\ loadData.t = "json" /\ articles = loadData.v

\* C6: after loading a snapshot the next-identifier counter is one greater
\* than the greatest identifier in the snapshot, and 1 when the snapshot
\* holds no article; so the next add gets a positive identifier that no
\* article of the store has.  Stated as the claim states it; the code
\* violates it.
C6_CounterAfterLoad ==
    JustLoaded =>
        /\ nextId = IF Len(articles) = 0 THEN 1
                    ELSE 1 + MathMax([i \in 1..Len(articles) |-> articles[i].id])
        /\ nextId > 0
        /\ \A i \in 1..Len(articles) : articles[i].id # nextId

\* the path parameter that names identifier id, as parseInt reads it
IdAsParam(id) == IF id \in Nat THEN Num(id) ELSE NaN

\* C7: once an add has returned an article with identifier i, every later
\* get(i) returns that same article with unchanged fields.  Stated as the
\* claim states it; the code violates it.
C7_ReturnedArticlesStay ==
    \A k \in 1..Len(issued) :
        getArticle(IdAsParam(issued[k].id)) = [t |-> "article", v |-> issued[k]]

\* C8: an add request whose title or content is empty or absent is answered
\* 400 "Title and content are required" and leaves the identifier counter,
\* the article list, both index mappings and the persisted snapshot (the
\* file and the writes in flight) unchanged.
C8_InvalidAddChangesNothing ==
    [][(/\ reply'.op = "post"
        /\ \/ reply'.req.title \in {Undefined, Null, Str(<<>>)}
           \/ reply'.req.content \in {Undefined, Null, Str(<<>>)})
       => /\ reply'.status = 400
          /\ reply'.body = "Title and content are required"
          /\ UNCHANGED <<articles, keywords, tags, nextId, disk, pending, issued>>]_vars

\* an invalid add was refused while the store held an article
C8_Witness ==
    /\ reply.op = "post"
    /\ reply.status = 400
    /\ Len(articles) > 0
    /\ pending # {}

----------------------------------------------------------------------------
(* Claims about the search *)

\* the search reply under consideration: a 200 answer to GET /articles/search
SearchAnswered == reply.op = "search" /\ reply.status = 200
ReplyTerms == split(toLowerCase(reply.req.q.v))
ReplySortBy == IF reply.req.sort = Undefined THEN "relevance" ELSE reply.req.sort.v
ReplyText(j) == toLowerCase(reply.body[j].title \o <<" ">> \o reply.body[j].content)

\* the occurrences of tok in text as a literal substring, overlapping ones
\* counted
OverlappingOccurrences(tok, text) ==
    Cardinality({p \in 1..(Len(text) + 1) :
                    /\ p + Len(tok) - 1 <= Len(text)
                    /\ SubSeq(text, p, p + Len(tok) - 1) = tok})

LiteralPositions(tok, text) ==
    {p \in 1..(Len(text) + 1) :
        /\ p + Len(tok) - 1 <= Len(text)
        /\ SubSeq(text, p, p + Len(tok) - 1) = tok}

\* the greatest number of occurrences no two of which overlap; the empty
\* token occurs once at every position
DisjointMatches(tok, text) ==
    IF Len(tok) = 0 THEN Len(text) + 1
    ELSE LET occ == LiteralPositions(tok, text)
             packs == {S \in SUBSET occ :
                          \A p \in S : \A q \in S :
                              p < q => q - p >= Len(tok)}
         IN  CHOOSE n \in 0..Cardinality(occ) :
                 /\ \E S \in packs : Cardinality(S) = n
                 /\ \A S \in packs : Cardinality(S) <= n

ScenarioStore ==
    /\ Len(articles) = 2
    /\ articles[1].id = 1
    /\ articles[1].title = CatsAndDogs
    /\ articles[1].content = CatsAreGreatPets
    /\ articles[1].tags = Arr(<<Pets, Animals>>)
    /\ articles[2].id = 2
    /\ articles[2].title = DogTraining
    /\ articles[2].content = TrainingYourDog
    /\ articles[2].tags = Arr(<<Pets, Training>>)

DogByRelevance == reply.op = "search" /\ reply.req = Search(Str(Dog), Str("relevance"))

ReplyIds == [j \in 1..Len(reply.body) |-> reply.body[j].id]
ReplyScores == [j \in 1..Len(reply.body) |-> reply.body[j].relevanceScore]

RECURSIVE JoinWithSpaces(_, _)
JoinWithSpaces(toks, i) ==
    IF i > Len(toks) THEN <<>>
    ELSE IF i = Len(toks) THEN toks[i]
    ELSE toks[i] \o <<" ">> \o JoinWithSpaces(toks, i + 1)

NonEmpty(tok) == tok # <<>>

\* the query with leading and trailing whitespace removed and every inner
\* run of whitespace replaced by one space
Collapsed(q) == JoinWithSpaces(SelectSeq(split(q), NonEmpty), 1)

\* C9: empty tokens are discarded: a query with leading, trailing or
\* repeated whitespace returns the same articles with the same scores in
\* the same order as the query with that whitespace trimmed and collapsed.
\* Stated as the claim states it; the code violates it.
C9_EmptyTokensDiscarded ==
    SearchAnswered =>
        reply.body = searchArticles(Collapsed(reply.req.q.v), ReplySortBy).results

\* C10: sorted by relevance (also when sort is omitted) the list is in
\* non-increasing order of score, and articles with equal scores keep their
\* order in the store.
C10_RelevanceOrder ==
    (SearchAnswered /\ ReplySortBy = "relevance") =>
        \A i \in 1..Len(reply.body) : \A j \in (i + 1)..Len(reply.body) :
            /\ reply.body[i].relevanceScore >= reply.body[j].relevanceScore
            /\ reply.body[i].relevanceScore = reply.body[j].relevanceScore =>
                  \E k \in 1..Len(articles) : \E l \in (k + 1)..Len(articles) :
                      /\ articles[k] = StripScore(reply.body[i])
                      /\ articles[l] = StripScore(reply.body[j])

\* the sort moved a later article in front of an earlier one
C10_Witness ==
    /\ SearchAnswered
    /\ ReplySortBy = "relevance"
    /\ Len(reply.body) >= 2
    /\ reply.body[1].id > reply.body[2].id
    /\ reply.body[1].relevanceScore > reply.body[2].relevanceScore

----------------------------------------------------------------------------
(* Persistence claims *)

\* the last add of this run is the last article of the store, and the file
\* holds exactly the snapshot that add wrote
LastSnapshotPersisted ==
    /\ Len(issued) > 0
    /\ Len(articles) > 0
    /\ articles[Len(articles)] = issued[Len(issued)]
    /\ disk = Json(Stringify(articles))

\* the greatest identifier of a non-empty list
MaxId(as) ==
    CHOOSE m \in {as[i].id : i \in 1..Len(as)} :
        \A i \in 1..Len(as) : as[i].id <= m

\* C11: when the snapshot written by the last add is what the file holds,
\* loading that file into a fresh store gives the same articles in the same
\* order with identical id, title, content, tags and createdAt, and a
\* counter of max(id) + 1.
C11_RoundTrip ==
    LastSnapshotPersisted =>
        LET fresh == loadArticles(disk.v)
        IN  /\ fresh.articles = articles
            /\ fresh.nextId = Plus1(MaxId(articles))

\* a step in which a started write ended without changing the file
WriteEndedWithoutEffect ==
    /\ pending' # pending
    /\ pending' \subseteq pending
    /\ disk' = disk

\* every write of this run has ended and the file is still absent: each of
\* them failed
EveryWriteFailed ==
    /\ Len(issued) > 0
    /\ pending = {}
    /\ disk = Absent

\* the article is in the store, the counter is past it, get returns it and
\* every token of its text leads a search to it
StoredAndFindable(a) ==
    /\ \E i \in 1..Len(articles) : articles[i] = a
    /\ nextId > a.id
    /\ getArticle(Num(a.id)) = [t |-> "article", v |-> a]
    /\ LET toks == split(toLowerCase(TitleAndContent(a)))
       IN  \A k \in 1..Len(toks) :
               /\ toks[k] \in DOMAIN keywords
               /\ a.id \in SeqRange(keywords[toks[k]])
               /\ ~searchArticles(toks[k], "relevance").threw
               /\ \E j \in 1..Len(searchArticles(toks[k], "relevance").results) :
                      StripScore(searchArticles(toks[k], "relevance").results[j]) = a

\* C12: a failed snapshot write does not touch the add that started it: the
\* step in which the write fails changes neither the article list, the two
\* index mappings, the counter nor what the adds returned, and when every
\* write of a run has failed each returned article is still stored, behind
\* the counter, and found by get and by search.
C12_FailedWriteLeavesAddIntact ==
    /\ [][WriteEndedWithoutEffect =>
            UNCHANGED <<articles, keywords, tags, nextId, issued>>]_vars
    /\ [](EveryWriteFailed =>
            \A n \in 1..Len(issued) : StoredAndFindable(issued[n]))

C12_Witness ==
    /\ EveryWriteFailed
    /\ Len(issued) = 2
    /\ reply.op = "get"
    /\ reply.status = 200
    /\ reply.body = issued[1]

----------------------------------------------------------------------------
(* Get claims *)

\* the numbers that are the identifier of no article of the store, of no
\* article returned by an add and of no article of the snapshot read
NeverIssued ==
    {n \in 0..1000 :
        /\ \A i \in 1..Len(articles) : articles[i].id # n
        /\ \A i \in 1..Len(issued) : issued[i].id # n
        /\ loadData.t = "json" => \A i \in 1..Len(loadData.v) : loadData.v[i].id # n}

\* C13: in every reachable state get(id) returns the one stored article
\* whose identifier equals id, for every identifier of a stored article, and
\* signals not-found for every identifier never issued, such as 999; a GET
\* /articles/:id request answers accordingly.  Stated as the claim states
\* it; the code violates it.
C13_GetReturnsTheStoredArticle ==
    /\ \A i \in 1..Len(articles) :
          /\ getArticle(Num(articles[i].id)) = [t |-> "article", v |-> articles[i]]
          /\ \A j \in 1..Len(articles) : articles[j].id = articles[i].id => j = i
    /\ 999 \in NeverIssued
    /\ \A n \in NeverIssued : getArticle(Num(n)) = Undefined
    /\ (reply.op = "get" /\ parseInt(reply.req).t = "num") =>
          LET n == parseInt(reply.req).v
          IN  IF n \in NeverIssued
              THEN reply.status = 404 /\ reply.body = "Article not found"
              ELSE \A i \in 1..Len(articles) :
                      articles[i].id = n => reply.status = 200 /\ reply.body = articles[i]

----------------------------------------------------------------------------
(* Search claims: idempotence and the other sort orders *)

\* C14: a step that answers a search changes neither the article list, the
\* two index mappings nor the counter, and a search that follows a search
\* with the same query and the same sortBy gets the identical answer, the
\* same articles in the same order with the same scores.
C14_SearchIdempotent ==
    [][reply'.op = "search" =>
          /\ UNCHANGED <<articles, keywords, tags, nextId>>
          /\ (reply.op = "search" /\ reply.req = reply'.req) => reply' = reply]_vars

C14_Witness ==
    /\ SearchAnswered
    /\ Len(reply.body) >= 2
    /\ ReplySortBy = "title"
    /\ searchArticles(reply.req.q.v, ReplySortBy).results = reply.body

\* the position in the store of a returned article
PosOf(r) == CHOOSE k \in 1..Len(articles) : articles[k].id = r.id

\* the answer lists its articles in the order the store holds them
InStoreOrder ==
    \A i \in 1..Len(reply.body) : \A j \in (i + 1)..Len(reply.body) :
        PosOf(reply.body[i]) < PosOf(reply.body[j])

\* C15 as stated: with sortBy "date" the results are in non-increasing order
\* of creation timestamp, the most recently added first; with any sortBy
\* other than "relevance" and "date" they are in store order.
C15_DateOrderNewestAddedFirst ==
    SearchAnswered =>
        /\ ReplySortBy = "date" =>
              \A i \in 1..Len(reply.body) : \A j \in (i + 1)..Len(reply.body) :
                  /\ reply.body[i].createdAt >= reply.body[j].createdAt
                  /\ PosOf(reply.body[i]) > PosOf(reply.body[j])
        /\ ReplySortBy \notin {"relevance", "date"} => InStoreOrder

\* C15 amended: with sortBy "date" the results are in non-increasing order
\* of creation timestamp, and articles with the same timestamp stay in store
\* order, the earlier added first; with any sortBy other than "relevance"
\* and "date" they are in store order.
C15_DateOrderTiesInStoreOrder ==
    SearchAnswered =>
        /\ ReplySortBy = "date" =>
              \A i \in 1..Len(reply.body) : \A j \in (i + 1)..Len(reply.body) :
                  \/ reply.body[i].createdAt > reply.body[j].createdAt
                  \/ /\ reply.body[i].createdAt = reply.body[j].createdAt
                     /\ PosOf(reply.body[i]) < PosOf(reply.body[j])
        /\ ReplySortBy \notin {"relevance", "date"} => InStoreOrder

C15_Witness ==
    /\ SearchAnswered
    /\ ReplySortBy = "date"
    /\ Len(reply.body) = 2
    /\ reply.body[1].createdAt = reply.body[2].createdAt
    /\ reply.body[1].id < reply.body[2].id

\* a date-sorted answer that moved the later article to the front
C15_WitnessReordered ==
    /\ SearchAnswered
    /\ ReplySortBy = "date"
    /\ Len(reply.body) = 2
    /\ reply.body[1].createdAt > reply.body[2].createdAt
    /\ PosOf(reply.body[1]) > PosOf(reply.body[2])

----------------------------------------------------------------------------
(* Index rebuild and write-through claims *)

\* no snapshot has replaced the store: the store and the index are what
\* the adds of this run built, one by one, from the constructor's state
BuiltByAddsOnly == ~(loadPc = "done" /\ loadData.t = "json")

\* C16: the index a snapshot load builds from the articles of the store
\* (both mappings cleared, every article indexed in store order) is, bucket
\* for bucket with duplicates and order, the index the adds built one by
\* one on a fresh store.  Stated as the claim states it; the code violates
\* it.
C16_LoadedIndexEqualsIncremental ==
    (BuiltByAddsOnly /\ Len(articles) > 0) =>
        LET loaded == loadArticles(Stringify(articles))
        IN  /\ loaded.keywords = keywords
            /\ loaded.tags = tags

\* C17: when no write fails, once every started write has completed the
\* file holds the snapshot of the in-memory list: the write an earlier add
\* started is never the file's final content after a later add's write.
\* Taken over the states in which the store holds exactly the articles the
\* adds of this run returned.  Stated as the claim states it; the code
\* violates it.
C17_WriteThroughConverges ==
    (Len(issued) > 0 /\ articles = issued /\ pending = {}) =>
        disk = Json(Stringify(articles))

----------------------------------------------------------------------------
(* Add claims *)

\* article a is in the index idx under every token of its text and every
\* one of its tags
FullyIndexedIn(kw, tg, a) ==
    /\ LET toks == split(toLowerCase(TitleAndContent(a)))
       IN  \A k \in 1..Len(toks) :
               toks[k] \in DOMAIN kw /\ a.id \in SeqRange(kw[toks[k]])
    /\ a.tags.t = "arr"
    /\ \A k \in 1..Len(a.tags.v) :
           /\ toLowerCase(a.tags.v[k]) \in DOMAIN tg
           /\ a.id \in SeqRange(tg[toLowerCase(a.tags.v[k])])

\* C18: an add whose body passes the title/content check is all-or-nothing
\* whatever its tags are (absent, a sequence of text, null, not a sequence):
\* either it answers 201 with the article, which is appended to the list
\* and fully indexed, the counter one greater, or it answers with an error
\* and the list, both mappings and the counter are unchanged.  Stated as
\* the claim states it; the code violates it.
C18_AddAllOrNothing ==
    [][(reply'.op = "post" /\ ~MissingTitleOrContent(reply'.req)) =>
          \/ /\ reply'.status = 201
             /\ articles' = Append(articles, reply'.body)
             /\ nextId' = nextId + 1
             /\ FullyIndexedIn(keywords', tags', reply'.body)
          \/ /\ reply'.status >= 400
             /\ UNCHANGED <<articles, keywords, tags, nextId>>]_vars

============================================================================
